---- MODULE Spec2Model ----
(***************************************************************************)
(* A model of holviapi/invoicing.py: the mapping between Holvi's JSON      *)
(* documents and the Invoice / InvoiceItem objects, and the requests that  *)
(* Invoice.save, Invoice.send and InvoiceAPI issue on the connection.      *)
(*                                                                         *)
(* Python values are represented as follows.                               *)
(*   - None is the empty tuple and any other optional value v is <<v>>.    *)
(*   - A dict is a function from its keys (strings) to its values.         *)
(*   - A string that the code parses or formats (a date, an amount) is a   *)
(*     sequence of one-character strings; other strings are opaque.        *)
(*   - A dict that the code shares between two containers lives in `heap`  *)
(*     and is named by its address, so that aliasing is visible.           *)
(***************************************************************************)
EXTENDS Integers, Sequences, FiniteSets, TLC

VARIABLES
    heap,    \* the detailed_price dicts of the objects the caller holds
    inv,     \* the Invoice the caller holds (None before any is constructed)
    src,     \* the document inv was built from, while the caller has not changed inv
    item,    \* the stand-alone InvoiceItem the caller holds
    log,     \* the requests the connection received during the last call
    call     \* the last call: its name, the state before it, what it returned

vars == <<heap, inv, src, item, log, call>>

None == <<>>
Some(v) == <<v>>

\* dict.get(key): the value, or None when the key is absent
Get(d, k) == IF k \in DOMAIN d THEN Some(d[k]) ELSE None

\* d[k] = v on a dict
Put(d, k, v) == [x \in DOMAIN d \cup {k} |-> IF x = k THEN v ELSE d[x]]

\* { k:v for (k,v) in d.items() if k in keys }
Filter(d, keys) == [x \in DOMAIN d \cap keys |-> d[x]]

\* del d[k] for every k of keys that d holds
Del(d, keys) == [x \in DOMAIN d \ keys |-> d[x]]

(***************************************************************************)
(* Decimal numbers: decimal.Decimal as sign, coefficient and exponent.     *)
(***************************************************************************)
Digits == <<"0", "1", "2", "3", "4", "5", "6", "7", "8", "9">>
DigitSet == {Digits[i] : i \in 1..10}
DigitVal(c) == (CHOOSE i \in 1..10 : Digits[i] = c) - 1

RECURSIVE StrToNat(_)
StrToNat(s) ==
    IF Len(s) = 0 THEN 0
    ELSE StrToNat(SubSeq(s, 1, Len(s) - 1)) * 10 + DigitVal(s[Len(s)])

RECURSIVE NatToStr(_)
NatToStr(n) ==
    IF n < 10 THEN <<Digits[n + 1]>>
    ELSE NatToStr(n \div 10) \o <<Digits[(n % 10) + 1]>>

RECURSIVE Pow10(_)
Pow10(n) == IF n = 0 THEN 1 ELSE 10 * Pow10(n - 1)

RECURSIVE Zeros(_)
Zeros(n) == IF n <= 0 THEN <<>> ELSE <<"0">> \o Zeros(n - 1)

\* Decimal(v): v is None (TypeError), or a numeric string [-]digits[.digits]
\* (anything else is decimal.InvalidOperation)
AllDigits(s) == \A i \in 1..Len(s) : s[i] \in DigitSet

\* the digits before and after the point of a numeric string without sign
DecimalParts(body, dots) ==
    IF dots = {} THEN [ip |-> body, fp |-> <<>>]
    ELSE [ip |-> SubSeq(body, 1, (CHOOSE i \in dots : TRUE) - 1),
          fp |-> SubSeq(body, (CHOOSE i \in dots : TRUE) + 1, Len(body))]

DecimalOfBody(neg, body) ==
    LET Made(dots, pt) ==
            IF /\ Cardinality(dots) <= 1
               /\ Len(pt.ip) + Len(pt.fp) > 0
               /\ AllDigits(pt.ip)
               /\ AllDigits(pt.fp)
            THEN [exc |-> "",
                  val |-> [sign |-> IF neg THEN 1 ELSE 0,
                           coef |-> StrToNat(pt.ip \o pt.fp),
                           exp  |-> 0 - Len(pt.fp)]]
            ELSE [exc |-> "InvalidOperation"]
        Split(dots) == Made(dots, DecimalParts(body, dots))
    IN  Split({i \in 1..Len(body) : body[i] = "."})

Decimal(v) ==
    IF v = None THEN [exc |-> "TypeError"]
    ELSE IF Len(v[1]) > 0 /\ v[1][1] = "-"
         THEN DecimalOfBody(TRUE, SubSeq(v[1], 2, Len(v[1])))
         ELSE DecimalOfBody(FALSE, v[1])

\* Decimal(".01"), the argument of both quantize calls
Cent == [sign |-> 0, coef |-> 1, exp |-> -2]

\* bool(d) of an optional Decimal: None and zero are falsy
DecimalTruthy(d) == d # None /\ d[1].coef # 0

\* d.quantize(e) in the default context: the exponent of e, ROUND_HALF_EVEN
\* (quantize_truncate: the same with the discarded digits dropped)
quantize_truncate(d, e) ==
    IF d.exp >= e.exp
    THEN [d EXCEPT !.coef = d.coef * Pow10(d.exp - e.exp), !.exp = e.exp]
    ELSE [d EXCEPT !.coef = d.coef \div Pow10(e.exp - d.exp), !.exp = e.exp]

quantize(d, e) ==
    IF d.exp >= e.exp
    THEN [d EXCEPT !.coef = d.coef * Pow10(d.exp - e.exp), !.exp = e.exp]
    ELSE LET Rounded(q, r, p) ==
                 IF 2 * r > p \/ (2 * r = p /\ q % 2 = 1) THEN q + 1 ELSE q
             Scaled(p) ==
                 [d EXCEPT !.coef = Rounded(d.coef \div p, d.coef % p, p), !.exp = e.exp]
         IN  Scaled(Pow10(e.exp - d.exp))

\* Decimal.__str__ for an exponent <= 0 (no scientific notation arises for
\* a number quantized to two places)
DecimalStr(d) ==
    LET Written(ds, left) ==
            (IF d.sign = 1 THEN <<"-">> ELSE <<>>)
                \o (IF left <= 0 THEN <<"0">> ELSE SubSeq(ds, 1, left))
                \o (IF d.exp >= 0 THEN <<>>
                    ELSE IF left <= 0 THEN <<".">> \o Zeros(0 - left) \o ds
                    ELSE <<".">> \o SubSeq(ds, left + 1, Len(ds)))
        Digs(ds) == Written(ds, Len(ds) + d.exp)
    IN  Digs(NatToStr(d.coef))

(***************************************************************************)
(* InvoiceItem                                                             *)
(***************************************************************************)
InvoiceItem_valid_keys == {"detailed_price", "category", "description"}

\* { "net": "0.00", "gross": "0.00" }
DefaultPrice == [net |-> <<"0", ".", "0", "0">>, gross |-> <<"0", ".", "0", "0">>]

\* if not self._jsondata.get("detailed_price"): self._jsondata["detailed_price"] = {...}
\* (a missing key and an empty dict are both falsy; the new dict is a new object)
EnsurePrice(js, h) ==
    IF "detailed_price" \in DOMAIN js /\ DOMAIN h[js.detailed_price] # {}
    THEN [js |-> js, heap |-> h]
    ELSE [js |-> Put(js, "detailed_price", Len(h) + 1), heap |-> Append(h, DefaultPrice)]

InvoiceItem_map_holvi_json_properties(it, h) ==
    LET Mapped(e, n, g, cat) ==
            IF n.exc # "" THEN [exc |-> n.exc]
            ELSE IF g.exc # "" THEN [exc |-> g.exc]
            ELSE [exc  |-> "",
                  item |-> [jsondata |-> e.js,
                            net      |-> Some(n.val),
                            gross    |-> Some(g.val),
                            category |-> IF cat # None /\ cat[1] # "" THEN cat
                                         ELSE it.category],
                  heap |-> e.heap]
        Priced(e, dp) ==
            Mapped(e, Decimal(Get(dp, "net")), Decimal(Get(dp, "gross")), Get(e.js, "category"))
        Ensured(e) == Priced(e, e.heap[e.js.detailed_price])
    IN  Ensured(EnsurePrice(it.jsondata, h))

\* InvoiceItem(invoice, holvi_dict): the record base keeps the keys of
\* holvi_dict in a dict of its own (the nested detailed_price dict is the
\* caller's object), then the typed fields are mapped
InvoiceItem_init(holvi_dict, h) ==
    IF "detailed_price" \in DOMAIN holvi_dict
    THEN InvoiceItem_map_holvi_json_properties(
             [jsondata |-> Put(holvi_dict, "detailed_price", Len(h) + 1),
              net |-> None, gross |-> None, category |-> None],
             Append(h, holvi_dict.detailed_price))
    ELSE InvoiceItem_map_holvi_json_properties(
             [jsondata |-> holvi_dict, net |-> None, gross |-> None, category |-> None], h)

\* if not self.gross: self.gross = self.net
DefaultGross(net, gross) == IF ~DecimalTruthy(gross) THEN net ELSE gross

\* del(filtered["detailed_price"][k]) for vat_rate and currency
\* (StripPrice_vat_only: the second deletion left out)
StripPrice_vat_only(d) == Del(d, {"vat_rate"})

StripPrice(d) == Del(d, {"vat_rate", "currency"})

\* the amount as written into detailed_price
\* (Amount_truncate: with the digits past the second dropped, not rounded)
Amount_truncate(d) == DecimalStr(quantize_truncate(d, Cent))

Amount(d) == DecimalStr(quantize(d, Cent))

\* filtered = { k:v for (k,v) in self._jsondata.items() if k in self._valid_keys }
ItemFilter(js) == Filter(js, InvoiceItem_valid_keys)

\* the dict returned holds the address of the item's own detailed_price dict:
\* the comprehension copies the top level only
InvoiceItem_to_holvi_dict(it, h) ==
    LET Returned(g1, js2, h2, filtered) ==
            [exc  |-> "",
             item |-> [it EXCEPT !.gross = g1, !.jsondata = js2],
             heap |-> [h2 EXCEPT ![filtered.detailed_price] = StripPrice(@)],
             ret  |-> filtered]
        Categorized(g1, js2, h2) == Returned(g1, js2, h2, ItemFilter(js2))
        Written(g1, e) ==
            IF it.net = None
            THEN [exc  |-> "AttributeError",
                  item |-> [it EXCEPT !.gross = g1, !.jsondata = e.js],
                  heap |-> e.heap]
            ELSE Categorized(
                     g1,
                     IF it.category # None THEN Put(e.js, "category", it.category[1]) ELSE e.js,
                     [e.heap EXCEPT ![e.js.detailed_price] =
                         Put(Put(@, "net", Amount(it.net[1])), "gross", Amount(g1[1]))])
    IN  Written(DefaultGross(it.net, it.gross), EnsurePrice(it.jsondata, h))

(***************************************************************************)
(* The item documents and amounts the caller may supply.                   *)
(***************************************************************************)
NetStrs ==
    { <<"1", "0">>, <<"1", "0", ".", "0", "0">>, <<"1", "9", ".", "9", "9", "9">>,
      <<"0", ".", "0", "0">> }

GrossStrs ==
    { <<"0", ".", "0", "0">>, <<"1", "2", ".", "4", "0">>, <<"2", "4", ".", "8">> }

PriceDicts ==
    { [net |-> n, gross |-> g] : n \in NetStrs, g \in GrossStrs }
    \cup { [net |-> n, gross |-> g, vat_rate |-> "24", currency |-> "EUR"] :
             n \in {<<"1", "0", ".", "0", "0">>}, g \in GrossStrs }
    \cup { [net |-> n] : n \in {<<"1", "0">>} }
    \cup { [net |-> <<"1", "0">>, gross |-> <<"x">>] }
    \cup { [k \in {} |-> 0] }

ItemDocs ==
    { [detailed_price |-> p, description |-> "a"] : p \in PriceDicts }
    \cup { [detailed_price |-> p, description |-> "b", category |-> "cat1",
            product |-> "none"] :
             p \in { [net |-> <<"1", "0", ".", "0", "0">>, gross |-> <<"1", "2", ".", "4", "0">>,
                      vat_rate |-> "24", currency |-> "EUR"] } }
    \cup { [k \in {} |-> 0], [description |-> "c", category |-> ""] }

\* the Decimals the caller assigns to item.net and item.gross
NetAmounts ==
    { Decimal(Some(s)).val :
        s \in { <<"1", "0">>, <<"1", "9", ".", "9", "9", "9">>, <<"0", ".", "1", "2", "5">>,
                <<"0", ".", "1", "3", "5">>, <<"-", "2", ".", "5", "0">> } }

GrossAmounts ==
    { Decimal(Some(s)).val : s \in { <<"0", ".", "0", "0">>, <<"1", "2", ".", "4", "0">> } }

(***************************************************************************)
(* The item on its own: construction, the caller's assignments to the      *)
(* typed fields, serialization.                                            *)
(***************************************************************************)
InitItem ==
    /\ heap = <<>>
    /\ inv = None
    /\ src = None
    /\ item = None
    /\ log = <<>>
    /\ call = [op |-> "none"]

\* item = InvoiceItem(invoice, holvi_dict)
NewItem(doc) ==
    /\ item = None
    /\ \E r \in {InvoiceItem_init(doc, <<>>)} :
           /\ call' = [op |-> "InvoiceItem", arg |-> doc, exc |-> r.exc]
           /\ IF r.exc = ""
              THEN item' = Some(r.item) /\ heap' = r.heap
              ELSE UNCHANGED <<item, heap>>
    /\ UNCHANGED <<inv, src, log>>

\* item.net = d
SetNet(d) ==
    /\ item # None
    /\ item' = Some([item[1] EXCEPT !.net = Some(d)])
    /\ call' = [op |-> "set"]
    /\ UNCHANGED <<heap, inv, src, log>>

\* item.gross = g  (a Decimal, or None)
SetGross(g) ==
    /\ item # None
    /\ item' = Some([item[1] EXCEPT !.gross = g])
    /\ call' = [op |-> "set"]
    /\ UNCHANGED <<heap, inv, src, log>>

\* item.to_holvi_dict()
ItemToHolviDict ==
    /\ item # None
    /\ \E r \in {InvoiceItem_to_holvi_dict(item[1], heap)} :
           /\ item' = Some(r.item)
           /\ heap' = r.heap
           /\ call' = [op |-> "item.to_holvi_dict", pre |-> item[1], preheap |-> heap,
                       exc |-> r.exc, ret |-> IF r.exc = "" THEN Some(r.ret) ELSE None]
    /\ UNCHANGED <<inv, src, log>>

NextItem ==
    \/ \E doc \in ItemDocs : NewItem(doc)
    \/ \E d \in NetAmounts : SetNet(d)
    \/ \E g \in {Some(d) : d \in GrossAmounts} \cup {None} : SetGross(g)
    \/ ItemToHolviDict

SpecItem == InitItem /\ [][NextItem]_vars

(***************************************************************************)
(* Calendar dates: datetime.date as year, month, day.                      *)
(***************************************************************************)
IsLeap(y) == (y % 4 = 0 /\ y % 100 # 0) \/ y % 400 = 0

DaysInMonth(y, m) ==
    IF m = 2 THEN (IF IsLeap(y) THEN 29 ELSE 28)
    ELSE IF m \in {4, 6, 9, 11} THEN 30 ELSE 31

NextDay(d) ==
    IF d.day < DaysInMonth(d.year, d.month) THEN [d EXCEPT !.day = d.day + 1]
    ELSE IF d.month < 12 THEN [d EXCEPT !.month = d.month + 1, !.day = 1]
    ELSE [year |-> d.year + 1, month |-> 1, day |-> 1]

\* d + datetime.timedelta(days=n)
RECURSIVE AddDays(_, _)
AddDays(d, n) == IF n = 0 THEN d ELSE AddDays(NextDay(d), n - 1)

\* "%04d" and "%02d"
Pad(s, n) == Zeros(n - Len(s)) \o s

\* date.isoformat(): YYYY-MM-DD
isoformat(d) ==
    Pad(NatToStr(d.year), 4) \o <<"-">> \o Pad(NatToStr(d.month), 2)
        \o <<"-">> \o Pad(NatToStr(d.day), 2)

\* datetime.datetime.strptime(s, "%Y-%m-%d").date(): four digits of year, one
\* or two of month and of day, a date of the calendar; else ValueError
strptime(s) ==
    LET Dated(y, m, d) ==
            IF y >= 1 /\ m \in 1..12 /\ d \in 1..DaysInMonth(y, m)
            THEN [exc |-> "", val |-> [year |-> y, month |-> m, day |-> d]]
            ELSE [exc |-> "ValueError"]
        Fields(ys, ms, dd) ==
            IF /\ Len(ys) = 4 /\ Len(ms) \in {1, 2} /\ Len(dd) \in {1, 2}
               /\ AllDigits(ys) /\ AllDigits(ms) /\ AllDigits(dd)
            THEN Dated(StrToNat(ys), StrToNat(ms), StrToNat(dd))
            ELSE [exc |-> "ValueError"]
        Cut(d1, d2) ==
            Fields(SubSeq(s, 1, d1 - 1), SubSeq(s, d1 + 1, d2 - 1), SubSeq(s, d2 + 1, Len(s)))
        Dashes(ds) ==
            IF Cardinality(ds) # 2 THEN [exc |-> "ValueError"]
            ELSE Cut(CHOOSE i \in ds : \A j \in ds : i <= j,
                     CHOOSE i \in ds : \A j \in ds : i >= j)
    IN  Dashes({i \in 1..Len(s) : s[i] = "-"})

(***************************************************************************)
(* Invoice                                                                 *)
(***************************************************************************)
Invoice_valid_keys ==
    {"currency", "issue_date", "due_date", "items", "receiver", "type", "number", "subject"}

\* datetime.timedelta(days=14)
DueDays == 14

EmptyReceiver ==
    [name |-> "", email |-> "", street |-> "", city |-> "", postcode |-> "", country |-> ""]

\* bool(s) of an optional string: None and "" are falsy
StrTruthy(s) == s # None /\ s[1] # ""

\* the items of a document, each made an InvoiceItem, in order
RECURSIVE MapItems(_, _)
MapItems(docs, h) ==
    LET Both(first, rest) ==
            IF rest.exc # "" THEN [exc |-> rest.exc]
            ELSE [exc |-> "", items |-> <<first.item>> \o rest.items, heap |-> rest.heap]
        First(first) ==
            IF first.exc # "" THEN [exc |-> first.exc]
            ELSE Both(first, MapItems(Tail(docs), first.heap))
    IN  IF docs = <<>> THEN [exc |-> "", items |-> <<>>, heap |-> h]
        ELSE First(InvoiceItem_init(Head(docs), h))

Invoice_map_holvi_json_properties(jsondata, h) ==
    LET Mapped(m, issue, due) ==
            IF m.exc # "" THEN [exc |-> m.exc]
            ELSE IF issue.exc # "" THEN [exc |-> issue.exc]
            ELSE IF due.exc # "" THEN [exc |-> due.exc]
            ELSE [exc  |-> "",
                  inv  |-> [jsondata   |-> jsondata,
                            items      |-> m.items,
                            issue_date |-> Some(issue.val),
                            due_date   |-> Some(due.val)],
                  heap |-> m.heap]
    IN  Mapped(MapItems(jsondata.items, h), strptime(jsondata.issue_date),
               strptime(jsondata.due_date))

\* _init_empty: the dict literal reads the clock for due_date (now1) and then
\* again for issue_date (now2)
Invoice_init_empty(now1, now2) ==
    [code       |-> None,
     currency   |-> "EUR",
     subject    |-> "",
     due_date   |-> isoformat(AddDays(now1, DueDays)),
     issue_date |-> isoformat(now2),
     number     |-> None,
     type       |-> "outbound",
     receiver   |-> EmptyReceiver,
     items      |-> <<>>]

\* Invoice(api, jsondata): the document is kept and mapped
Invoice_from_json(jsondata, h) == Invoice_map_holvi_json_properties(jsondata, h)

\* Invoice(api): the default document is built and mapped
Invoice_empty(now1, now2) ==
    Invoice_map_holvi_json_properties(Invoice_init_empty(now1, now2), <<>>)

\* for item in self.items: self._jsondata["items"].append(item.to_holvi_dict())
RECURSIVE SerializeItems(_, _)
SerializeItems(items, h) ==
    LET Both(first, rest) ==
            [exc   |-> rest.exc,
             items |-> <<first.item>> \o rest.items,
             heap  |-> rest.heap,
             out   |-> <<first.ret>> \o rest.out]
        First(first) ==
            IF first.exc # ""
            THEN [exc |-> first.exc, items |-> <<first.item>> \o Tail(items),
                  heap |-> first.heap, out |-> <<>>]
            ELSE Both(first, SerializeItems(Tail(items), first.heap))
    IN  IF items = <<>> THEN [exc |-> "", items |-> <<>>, heap |-> h, out |-> <<>>]
        ELSE First(InvoiceItem_to_holvi_dict(Head(items), h))

\* { k:v for (k,v) in self._jsondata.items() if k in self._valid_keys }
\* (InvoiceFilter_all: every key kept)
InvoiceFilter_all(js) == js

InvoiceFilter(js) == Filter(js, Invoice_valid_keys)

Invoice_to_holvi_dict(iv, h) ==
    LET Returned(m, js2) ==
            [exc  |-> "",
             inv  |-> [iv EXCEPT !.jsondata = js2, !.items = m.items],
             heap |-> m.heap,
             ret  |-> InvoiceFilter(js2)]
        Items(m, js1) ==
            IF m.exc # ""
            THEN [exc |-> m.exc, inv |-> [iv EXCEPT !.jsondata = js1, !.items = m.items],
                  heap |-> m.heap]
            ELSE IF iv.issue_date = None \/ iv.due_date = None
            THEN [exc |-> "AttributeError",
                  inv |-> [iv EXCEPT !.jsondata = js1, !.items = m.items], heap |-> m.heap]
            ELSE Returned(m, Put(Put(js1, "issue_date", isoformat(iv.issue_date[1])),
                                 "due_date", isoformat(iv.due_date[1])))
        Serialized(m) == Items(m, Put(iv.jsondata, "items", m.out))
    IN  Serialized(SerializeItems(iv.items, h))

(***************************************************************************)
(* The connection and the requests                                         *)
(***************************************************************************)
\* connection.base_url_fmt and connection.pool of the collaborator
ConnBaseUrlFmt == "https://holvi.test/api/"
ConnPool == "demo"

\* six.u(connection.base_url_fmt + 'pool/{pool}/invoice/').format(pool=connection.pool)
base_url == ConnBaseUrlFmt \o "pool/" \o ConnPool \o "/invoice/"

\* '{code}'.format(code=c): None is written "None"
FormatCode(c) == IF c = None THEN "None" ELSE c[1]

\* connection.make_get / make_put / make_post called once: the request reaches
\* the connection, and its answer or its error is what the caller gets
\* (Exchange_retry: the request issued once more after an error)
Exchange_retry(req, resp) ==
    [log |-> IF resp.exc # "" THEN <<req, req>> ELSE <<req>>, exc |-> resp.exc, val |-> resp.val]

Exchange(req, resp) == [log |-> <<req>>, exc |-> resp.exc, val |-> resp.val]

\* the payload of send
SendPayload_always_email(send_email) ==
    [mark_as_sent |-> TRUE, send_email |-> TRUE, active |-> TRUE]

SendPayload(send_email) ==
    [mark_as_sent |-> TRUE, send_email |-> send_email, active |-> TRUE]

\* send(send_email=True): nothing is done with the answer
Invoice_send(iv, send_email, resp) ==
    LET Sent(x) == [exc |-> x.exc, log |-> x.log]
    IN  Sent(Exchange([verb    |-> "PUT",
                       url     |-> base_url \o FormatCode(iv.jsondata.code) \o "/status/",
                       payload |-> SendPayload(send_email)], resp))

\* raise HolviError(...): the module binds no name HolviError (it imports
\* HolviObject and JSONObject from .utils), so the raise statement itself
\* fails with NameError
RaiseHolviError == "NameError"

\* the request save issues: an update when self.code is truthy, else a create
\* (SaveRequest_post: a create whatever the code)
SaveRequest_post(code, send_json) == [verb |-> "POST", url |-> base_url, payload |-> send_json]

SaveRequest(code, send_json) ==
    IF StrTruthy(code)
    THEN [verb |-> "PUT", url |-> base_url \o FormatCode(code) \o "/", payload |-> send_json]
    ELSE [verb |-> "POST", url |-> base_url, payload |-> send_json]

\* return Invoice(self.api, stat): the new Invoice, or the error of building it
Wrapped(n) ==
    [exc |-> n.exc, ret |-> IF n.exc = "" THEN Some([inv |-> n.inv, heap |-> n.heap]) ELSE None]

Invoice_save(iv, h, resp) ==
    LET Answered(d, x, w) ==
            [exc |-> w.exc, inv |-> d.inv, heap |-> d.heap, log |-> x.log, ret |-> w.ret]
        Requested(d, x) ==
            IF x.exc # ""
            THEN [exc |-> x.exc, inv |-> d.inv, heap |-> d.heap, log |-> x.log, ret |-> None]
            ELSE Answered(d, x, Wrapped(Invoice_from_json(x.val, <<>>)))
        Serialized(d) ==
            IF d.exc # ""
            THEN [exc |-> d.exc, inv |-> d.inv, heap |-> d.heap, log |-> <<>>, ret |-> None]
            ELSE Requested(d, Exchange(SaveRequest(iv.jsondata.code, d.ret), resp))
    IN  IF iv.items = <<>> \/ ~StrTruthy(Some(iv.jsondata.subject))
        THEN [exc |-> RaiseHolviError, inv |-> iv, heap |-> h, log |-> <<>>, ret |-> None]
        ELSE Serialized(Invoice_to_holvi_dict(iv, h))

\* for ijson in invoices: ret.append(Invoice(self, ijson))
RECURSIVE WrapAll(_)
WrapAll(docs) ==
    LET Both(first, rest) ==
            IF rest.exc # "" THEN [exc |-> rest.exc, ret |-> None]
            ELSE [exc |-> "", ret |-> Some(first.ret \o rest.ret[1])]
        First(first) ==
            IF first.exc # "" THEN [exc |-> first.exc, ret |-> None]
            ELSE Both(first, WrapAll(Tail(docs)))
    IN  IF docs = <<>> THEN [exc |-> "", ret |-> Some(<<>>)]
        ELSE First(Wrapped(Invoice_from_json(Head(docs), <<>>)))

list_invoices(resp) ==
    LET Answered(x, w) == [exc |-> w.exc, log |-> x.log, ret |-> w.ret]
        Requested(x) ==
            IF x.exc # "" THEN [exc |-> x.exc, log |-> x.log, ret |-> None]
            ELSE Answered(x, WrapAll(x.val))
    IN  Requested(Exchange([verb |-> "GET", url |-> base_url, payload |-> None], resp))

get_invoice(invoice_code, resp) ==
    LET Answered(x, w) == [exc |-> w.exc, log |-> x.log, ret |-> w.ret]
        Requested(x) ==
            IF x.exc # "" THEN [exc |-> x.exc, log |-> x.log, ret |-> None]
            ELSE Answered(x, Wrapped(Invoice_from_json(x.val, <<>>)))
    IN  Requested(Exchange([verb    |-> "GET",
                            url     |-> base_url \o FormatCode(Some(invoice_code)) \o "/",
                            payload |-> None], resp))

(***************************************************************************)
(* The documents, clock readings and answers of the environment.           *)
(***************************************************************************)
MaxItems == 2

ItemA ==
    [detailed_price |-> [net |-> <<"1", "0", ".", "0", "0">>, gross |-> <<"1", "2", ".", "4", "0">>,
                         vat_rate |-> "24", currency |-> "EUR"],
     description |-> "a", category |-> "cat1", product |-> "none"]

ItemB ==
    [detailed_price |-> [net |-> <<"1", "9", ".", "9", "9", "9">>, gross |-> <<"0", ".", "0", "0">>],
     description |-> "b"]

\* an item document without gross: InvoiceItem(...) raises TypeError on it
ItemNoGross == [detailed_price |-> [net |-> <<"1", "0">>], description |-> "n"]

InvItemDocs == {ItemA, ItemB}

ItemSeqs == UNION { [1..k -> InvItemDocs] : k \in 0..MaxItems }

D(y, m, d) == [year |-> y, month |-> m, day |-> d]

\* (issue_date, due_date) as the documents write them: zero-padded; with an
\* unpadded month and day, which strptime accepts; and no date of the calendar
PaddedDates ==
    << <<"2", "0", "2", "4", "-", "0", "2", "-", "1", "5">>,
       <<"2", "0", "2", "4", "-", "0", "2", "-", "2", "9">> >>

UnpaddedDates ==
    << <<"2", "0", "2", "4", "-", "2", "-", "5">>,
       <<"2", "0", "2", "4", "-", "0", "2", "-", "1", "9">> >>

BadDates ==
    << <<"2", "0", "2", "3", "-", "1", "2", "-", "2", "0">>,
       <<"2", "0", "2", "3", "-", "0", "2", "-", "2", "9">> >>

ServerDates ==
    << <<"2", "0", "2", "4", "-", "0", "3", "-", "0", "1">>,
       <<"2", "0", "2", "4", "-", "0", "3", "-", "1", "5">> >>

Receiver ==
    [name |-> "N", email |-> "e@x", street |-> "S", city |-> "C", postcode |-> "1", country |-> "FI"]

\* a document with every key of an invoice and two keys only the remote
\* writes, or with the keys the mapping reads alone
MakeDoc(code, subject, dates, full, items) ==
    LET base == [code |-> code, subject |-> subject, issue_date |-> dates[1],
                 due_date |-> dates[2], items |-> items]
    IN  IF full
        THEN [k \in DOMAIN base \cup {"currency", "number", "type", "receiver", "status", "paid"} |->
                 IF k \in DOMAIN base THEN base[k]
                 ELSE IF k = "receiver" THEN Receiver
                 ELSE IF k = "number" THEN Some(7)
                 ELSE IF k = "paid" THEN FALSE
                 ELSE IF k = "currency" THEN "EUR"
                 ELSE IF k = "type" THEN "outbound"
                 ELSE "draft"]
        ELSE base

InvoiceDocs ==
    { MakeDoc(c, s, PaddedDates, f, it) :
        c \in {None, Some("inv1")}, s \in {"", "Work"}, f \in BOOLEAN, it \in ItemSeqs }
    \cup { MakeDoc(Some("inv1"), "Work", UnpaddedDates, TRUE, it) : it \in ItemSeqs }
    \cup { MakeDoc(Some("inv1"), "Work", BadDates, TRUE, <<ItemA>>),
           MakeDoc(None, "Work", PaddedDates, TRUE, <<ItemA, ItemNoGross>>) }

\* what the remote answers with
ServerDoc ==
    MakeDoc(Some("inv9"), "Work", ServerDates, TRUE, <<ItemA>>)

ServerDocBad ==
    MakeDoc(Some("inv8"), "Work", << ServerDates[1], <<"s", "o", "o", "n">> >>, FALSE, <<>>)

TransportError == [exc |-> "ConnectionError", val |-> <<>>]

DocResponses == { TransportError, [exc |-> "", val |-> ServerDoc], [exc |-> "", val |-> ServerDocBad] }

\* the answers to the status update of send
StatusResponses == { TransportError, [exc |-> "", val |-> [code |-> "inv1", active |-> TRUE]] }

ListResponses ==
    { TransportError, [exc |-> "", val |-> <<>>],
      [exc |-> "", val |-> <<ServerDoc, ServerDoc>>],
      [exc |-> "", val |-> <<ServerDoc, ServerDocBad>>] }

\* the dates at which the clock is read
ClockDates == { D(2024, 2, 14), D(2024, 2, 15), D(2023, 12, 17), D(2023, 12, 31) }

(***************************************************************************)
(* The invoice: construction, the caller's appends to items, serialization *)
(* and the calls that reach the connection.                                *)
(***************************************************************************)
Init ==
    /\ heap = <<>>
    /\ inv = None
    /\ src = None
    /\ item = None
    /\ log = <<>>
    /\ call = [op |-> "none"]

\* inv = Invoice(api, doc)
NewInvoice(doc) ==
    /\ inv = None
    /\ \E r \in {Invoice_from_json(doc, <<>>)} :
           /\ call' = [op |-> "Invoice(json)", exc |-> r.exc]
           /\ IF r.exc = ""
              THEN inv' = Some(r.inv) /\ heap' = r.heap /\ src' = Some(doc)
              ELSE UNCHANGED <<inv, heap, src>>
    /\ log' = <<>>
    /\ UNCHANGED item

\* inv = Invoice(api): the clock is read twice, and the date may change between
NewEmptyInvoice(now1, now2) ==
    /\ inv = None
    /\ \E r \in {Invoice_empty(now1, now2)} :
           /\ call' = [op |-> "Invoice()", exc |-> r.exc, now1 |-> now1, now2 |-> now2]
           /\ IF r.exc = ""
              THEN inv' = Some(r.inv) /\ heap' = r.heap /\ src' = None
              ELSE UNCHANGED <<inv, heap, src>>
    /\ log' = <<>>
    /\ UNCHANGED item

\* inv.items.append(InvoiceItem(inv, doc))
AppendItem(doc) ==
    /\ inv # None
    /\ Len(inv[1].items) < MaxItems
    /\ \E r \in {InvoiceItem_init(doc, heap)} :
           /\ call' = [op |-> "append", exc |-> r.exc]
           /\ IF r.exc = ""
              THEN /\ inv' = Some([inv[1] EXCEPT !.items = Append(@, r.item)])
                   /\ heap' = r.heap
                   /\ src' = None
              ELSE UNCHANGED <<inv, heap, src>>
    /\ log' = <<>>
    /\ UNCHANGED item

\* inv.to_holvi_dict()
ToHolviDict ==
    /\ inv # None
    /\ \E r \in {Invoice_to_holvi_dict(inv[1], heap)} :
           /\ inv' = Some(r.inv)
           /\ heap' = r.heap
           /\ call' = [op |-> "to_holvi_dict", pre |-> inv[1], preheap |-> heap,
                       exc |-> r.exc, ret |-> IF r.exc = "" THEN Some(r.ret) ELSE None]
    /\ log' = <<>>
    /\ UNCHANGED <<src, item>>

\* inv.save()
Save(resp) ==
    /\ inv # None
    /\ \E r \in {Invoice_save(inv[1], heap, resp)} :
           /\ inv' = Some(r.inv)
           /\ heap' = r.heap
           /\ log' = r.log
           /\ call' = [op |-> "save", pre |-> inv[1], preheap |-> heap, resp |-> resp,
                       exc |-> r.exc, ret |-> r.ret]
    /\ UNCHANGED <<src, item>>

\* inv.send() and inv.send(send_email)
Send(arg, resp) ==
    /\ inv # None
    /\ \E r \in {Invoice_send(inv[1], IF arg = None THEN TRUE ELSE arg[1], resp)} :
           /\ log' = r.log
           /\ call' = [op |-> "send", pre |-> inv[1], preheap |-> heap, arg |-> arg,
                       resp |-> resp, exc |-> r.exc, ret |-> None]
    /\ UNCHANGED <<heap, inv, src, item>>

\* api.list_invoices()
ListInvoices(resp) ==
    /\ \E r \in {list_invoices(resp)} :
           /\ log' = r.log
           /\ call' = [op |-> "list_invoices", resp |-> resp, exc |-> r.exc, ret |-> r.ret]
    /\ UNCHANGED <<heap, inv, src, item>>

\* api.get_invoice(code)
GetInvoice(code, resp) ==
    /\ \E r \in {get_invoice(code, resp)} :
           /\ log' = r.log
           /\ call' = [op |-> "get_invoice", arg |-> code, resp |-> resp,
                       exc |-> r.exc, ret |-> r.ret]
    /\ UNCHANGED <<heap, inv, src, item>>

Next ==
    \/ \E doc \in InvoiceDocs : NewInvoice(doc)
    \/ \E now1 \in ClockDates : \E now2 \in {now1, NextDay(now1)} : NewEmptyInvoice(now1, now2)
    \/ \E doc \in InvItemDocs \cup {ItemNoGross} : AppendItem(doc)
    \/ ToHolviDict
    \/ \E resp \in DocResponses : Save(resp)
    \/ \E arg \in {None, Some(TRUE), Some(FALSE)} : \E resp \in StatusResponses : Send(arg, resp)
    \/ \E resp \in ListResponses : ListInvoices(resp)
    \/ \E resp \in DocResponses : GetInvoice("inv1", resp)

Spec == Init /\ [][Next]_vars

(***************************************************************************)
(* Properties of InvoiceItem.to_holvi_dict                                 *)
(***************************************************************************)
ItemSerialized == call.op = "item.to_holvi_dict" /\ call.exc = ""

\* the detailed_price of the dict the last to_holvi_dict returned
ReturnedPrice == heap[call.ret[1].detailed_price]

\* s is "[-]digits.dd" and the number it writes is a hundredth nearest to d
IsNearestHundredth(s, d) ==
    LET neg  == Len(s) > 0 /\ s[1] = "-"
        body == IF neg THEN SubSeq(s, 2, Len(s)) ELSE s
        n    == Len(body)
        ds   == SubSeq(body, 1, n - 3) \o SubSeq(body, n - 1, n)
        h    == StrToNat(ds)
        k    == 0 - d.exp
        diff == h * Pow10(k - 2) - d.coef
    IN  /\ n >= 4
        /\ body[n - 2] = "."
        /\ \A i \in 1..Len(ds) : ds[i] \in DigitSet
        /\ neg <=> d.sign = 1
        /\ IF k <= 2 THEN h = d.coef * Pow10(2 - k)
           ELSE 2 * (IF diff < 0 THEN 0 - diff ELSE diff) <= Pow10(k - 2)

\* C4: an item with a net amount and no gross (gross None, or the zero of a
\* default-constructed item) serializes net and gross both as the net amount
\* rounded to the nearest hundredth, written with exactly two fractional digits.
C4_NetOnlyQuantized ==
    (ItemSerialized /\ ~DecimalTruthy(call.pre.gross)) =>
        /\ ReturnedPrice.net = ReturnedPrice.gross
        /\ IsNearestHundredth(ReturnedPrice.net, call.pre.net[1])

C4_Witness ==
    /\ ItemSerialized
    /\ call.pre.gross = None
    /\ call.pre.net = Some([sign |-> 0, coef |-> 19999, exp |-> -3])
    /\ ReturnedPrice.net = <<"2", "0", ".", "0", "0">>
    /\ ReturnedPrice.gross = <<"2", "0", ".", "0", "0">>

\* C5: the dict an item serializes to has top-level keys only among
\* detailed_price, category and description, always has detailed_price, and
\* its detailed_price holds neither vat_rate nor currency.
C5_WriteFiltered ==
    ItemSerialized =>
        /\ DOMAIN call.ret[1] \subseteq {"detailed_price", "category", "description"}
        /\ "detailed_price" \in DOMAIN call.ret[1]
        /\ DOMAIN ReturnedPrice \cap {"vat_rate", "currency"} = {}

C5_Witness ==
    /\ ItemSerialized
    /\ "product" \in DOMAIN call.pre.jsondata
    /\ {"vat_rate", "currency"} \subseteq DOMAIN call.preheap[call.pre.jsondata.detailed_price]
    /\ DOMAIN ReturnedPrice = {"net", "gross"}

\* C9: an item whose gross holds a value, zero included, serializes that gross
\* (quantized to two decimals), not its net.
C9_GrossKept ==
    (ItemSerialized /\ call.pre.gross # None) =>
        ReturnedPrice.gross = Amount(call.pre.gross[1])

\* C10: serializing an item removes no key from the item's own detailed_price.
C10_RawPriceKept ==
    ItemSerialized =>
        DOMAIN call.preheap[call.pre.jsondata.detailed_price]
            \subseteq DOMAIN heap[item[1].jsondata.detailed_price]

(***************************************************************************)
(* Properties of Invoice and InvoiceAPI                                    *)
(***************************************************************************)
\* the invoice failed the checks save makes before serializing
FailsValidation(iv) == iv.items = <<>> \/ iv.jsondata.subject = ""

\* C1: save on an invoice with no items, or with an empty subject, fails with
\* the domain validation error (HolviError) and issues no request.
C1_SaveValidationError ==
    (call.op = "save" /\ FailsValidation(call.pre)) =>
        (call.exc = "HolviError" /\ log = <<>>)

\* C2: save on an invoice that passes validation issues exactly one request, a
\* POST to base_url when code is None and a PUT to base_url + code + '/' when
\* code is set, and returns a new Invoice wrapping the document the request
\* returned (whenever that document can be mapped).
C2_SaveDispatch ==
    (call.op = "save" /\ ~FailsValidation(call.pre)) =>
        /\ Len(log) = 1
        /\ IF call.pre.jsondata.code = None
           THEN log[1].verb = "POST" /\ log[1].url = base_url
           ELSE /\ log[1].verb = "PUT"
                /\ log[1].url = base_url \o call.pre.jsondata.code[1] \o "/"
        /\ call.ret # None => call.ret[1].inv.jsondata = call.resp.val
        /\ (call.resp.exc = "" /\ call.resp.val = ServerDoc) => call.ret # None

C2_Witness ==
    /\ call.op = "save"
    /\ ~FailsValidation(call.pre)
    /\ call.pre.jsondata.code = Some("inv1")
    /\ Len(log) = 1 /\ log[1].verb = "PUT"
    /\ call.ret # None

\* the wire shape of a date, YYYY-MM-DD
WireDate(s) ==
    /\ Len(s) = 10
    /\ s[5] = "-" /\ s[8] = "-"
    /\ \A i \in (1..10) \ {5, 8} : s[i] \in DigitSet

\* C3: for an Invoice built from a valid document (dates in the wire shape
\* YYYY-MM-DD) and not changed since, to_holvi_dict returns the document's
\* issue_date and due_date strings, exactly the document's keys that are in
\* the whitelist, and the items in the same number and order.
C3_RoundTrip ==
    (/\ call.op = "to_holvi_dict" /\ call.exc = ""
     /\ src # None
     /\ WireDate(src[1].issue_date) /\ WireDate(src[1].due_date)) =>
        /\ call.ret[1].issue_date = src[1].issue_date
        /\ call.ret[1].due_date = src[1].due_date
        /\ DOMAIN call.ret[1] = DOMAIN src[1] \cap
               {"currency", "issue_date", "due_date", "items", "receiver", "type",
                "number", "subject"}
        /\ Len(call.ret[1].items) = Len(src[1].items)
        /\ \A i \in 1..Len(src[1].items) :
               call.ret[1].items[i].description = src[1].items[i].description

C3_Witness ==
    /\ call.op = "to_holvi_dict" /\ call.exc = ""
    /\ src # None
    /\ "status" \in DOMAIN src[1]
    /\ src[1].items = <<ItemB, ItemA>>
    /\ call.ret[1].issue_date = PaddedDates[1]
    /\ Len(call.ret[1].items) = 2

\* C6: an empty-constructed Invoice has due_date = issue_date + 14 days, also
\* when the calendar date changes between the reads of the clock.
C6_DueDateFourteenDays ==
    (call.op = "Invoice()" /\ call.exc = "") =>
        /\ inv[1].due_date = Some(AddDays(inv[1].issue_date[1], 14))
        /\ inv[1].jsondata.due_date = isoformat(AddDays(inv[1].issue_date[1], 14))

\* C7: send issues exactly one PUT to base_url + code + '/status/' with the
\* payload {mark_as_sent: true, send_email: <arg, default true>, active: true}
\* and leaves the invoice as it was, whatever the answer.
C7_SendFrame ==
    call.op = "send" =>
        /\ log = << [verb    |-> "PUT",
                     url     |-> base_url
                                   \o (IF call.pre.jsondata.code = None THEN "None"
                                       ELSE call.pre.jsondata.code[1])
                                   \o "/status/",
                     payload |-> [mark_as_sent |-> TRUE,
                                  send_email   |-> IF call.arg = None THEN TRUE
                                                   ELSE call.arg[1],
                                  active       |-> TRUE]] >>
        /\ inv = Some(call.pre)
        /\ heap = call.preheap

C7_Witness ==
    /\ call.op = "send"
    /\ call.arg = Some(FALSE)
    /\ call.resp.exc = ""
    /\ Len(log) = 1 /\ log[1].payload.send_email = FALSE
    /\ inv[1].jsondata.code = Some("inv1")

\* C8: every call issues at most one request; when the request raises a
\* transport error, that error is what the call raises, the request is not
\* issued again, and no Invoice is returned.
C8_OneRequestNoRetry ==
    /\ Len(log) <= 1
    /\ (/\ call.op \in {"save", "send", "list_invoices", "get_invoice"}
        /\ log # <<>>
        /\ call.resp.exc # "") =>
            (call.exc = call.resp.exc /\ call.ret = None /\ Len(log) = 1)

C8_Witness ==
    /\ call.op = "save"
    /\ Len(log) = 1
    /\ call.resp = TransportError
    /\ call.exc = "ConnectionError"
    /\ call.ret = None

====
